---- MODULE Spec2Model ----
(***************************************************************************)
(* A model of nasm-rs (src/src/lib.rs): the Build configuration, the       *)
(* assembler locator (find_nasm, is_nasm_found_and_new_enough,             *)
(* parse_nasm_version), the compile pipeline (compile, compile_objects,    *)
(* both variants of compile_objects_inner, compile_file, run) and the      *)
(* archiver call.                                                          *)
(*                                                                         *)
(* Strings the code takes apart (the output of `nasm -v`) are sequences of *)
(* one-character strings.  Paths are records [dir, stem, ext]: the parent  *)
(* directory, the file stem and the extension; a path without a file name  *)
(* (such as `..`) has an empty stem.                                       *)
(*                                                                         *)
(* Assumed of the environment: the variables the code `expect`s are set    *)
(* (TARGET, OUT_DIR, CARGO_MANIFEST_DIR, NUM_JOBS), the output directory   *)
(* can be created, and the jobserver's own operations do not fail.         *)
(***************************************************************************)
EXTENDS Integers, Sequences, FiniteSets, TLC

VARIABLES
    \* Build (lib.rs 80-90) and the cargo feature the crate is built with
    files, nasm, min_version, parallel,
    flags, debug, target, archiver, archiver_is_msvc,
    \* the environment: PATH and what running `<candidate> -v` gives, the
    \* variables TARGET and AR, and cfg!(target_env = "msvc")
    PATH, toolOut, TARGET, AR, target_env_msvc,
    \* the call in progress: entry point, position of the calling thread, result,
    \* and the `objects` of compile
    op, pc, ret, objects,
    \* find_nasm's locals, the candidates probed so far, the verdict of the last
    \* is_nasm_found_and_new_enough, and compile_objects' `nasm`
    paths, idx, first_error, probed, verdict, found,
    \* the process-wide jobserver: JOBSERVER, its budget, the tokens in its
    \* pool, and the implicit token of this process
    JOBSERVER, job_limit, pool, held,
    \* the compile units: one worker per file, the handles, the joined results,
    \* and whether some unit's result was known before an earlier unit's
    unit, handles, thread_results, overtook,
    \* the archiver invocations made so far
    ar_calls,
    \* the process: the number of compile_objects calls made so far on its
    \* main thread, and a second thread that runs compile_objects_inner
    ncalls, run2,
    \* the argument of a direct call of parse_nasm_version
    version,
    \* the argument and the result of a direct call of parse_triple
    triple, resolved,
    \* the include, define and flag calls made so far, and the result of get_args
    calls, args,
    \* the argument of compile, and the file name it derives from it
    lib_name, output

bconf   == <<flags, debug, target, archiver, archiver_is_msvc>>
config  == <<files, nasm, min_version, parallel, bconf>>
environ == <<PATH, toolOut, TARGET, AR, target_env_msvc>>
process == <<ncalls, run2>>
purev   == <<version, triple, resolved, calls, args, lib_name, output>>
callv   == <<op, pc, ret, objects>>
findv   == <<paths, idx, first_error, probed, verdict, found>>
jsv     == <<JOBSERVER, job_limit, pool, held>>
unitv   == <<unit, handles, thread_results, overtook>>
vars    == <<config, environ, callv, findv, jsv, unitv, ar_calls, process, purev>>

----------------------------------------------------------------------------
\* Bounds of the model.

\* longest file list
MaxFiles == 3
\* largest job budget (NUM_JOBS, or the size of the inherited jobserver)
MaxJobs == 2
\* most directories in PATH
MaxDirs == 2
\* largest version component in the version-comparison runs
MaxVer == 2
\* most dot-separated components of a version token in the parsing runs
MaxComps == 3
\* most compile_objects calls made one after the other in one process
MaxCalls == 2
\* most source files of the Build on the second thread
MaxFiles2 == 2
\* most include, define and flag calls on one Build
MaxFlags == 5

----------------------------------------------------------------------------
\* Values.

Path(dir, stem, ext) == [dir |-> dir, stem |-> stem, ext |-> ext]
NoPath == Path("", "", "")

\* Option<String>, Option<bool>, Option<OsString>
Absent == [some |-> FALSE, val |-> <<>>]
Given(v) == [some |-> TRUE, val |-> v]

\* Option<PathBuf>
None == [some |-> FALSE, val |-> NoPath]
Some(p) == [some |-> TRUE, val |-> p]

\* The String of an Err: what failed, the path and the tool output it quotes,
\* and the required version it quotes.
Error(kind, who, text, req) == [kind |-> kind, who |-> who, text |-> text, req |-> req]
NoError == Error("", NoPath, <<>>, <<>>)

Min(S) == CHOOSE x \in S : \A y \in S : x <= y

----------------------------------------------------------------------------
\* Strings: str::split, str::find and usize::from_str on character sequences.

Digits == <<"0", "1", "2", "3", "4", "5", "6", "7", "8", "9">>
IsDigit(c) == \E d \in 1..10 : Digits[d] = c
DigitVal(c) == (CHOOSE d \in 1..10 : Digits[d] = c) - 1

\* s.split(sep): the fields between the separators; one more field than
\* separators, so the empty string gives one empty field.
RECURSIVE SplitFrom(_, _, _, _)
SplitFrom(s, sep, i, cur) ==
    IF i > Len(s) THEN <<cur>>
    ELSE IF s[i] = sep THEN <<cur>> \o SplitFrom(s, sep, i + 1, <<>>)
    ELSE SplitFrom(s, sep, i + 1, Append(cur, s[i]))
Split(s, sep) == SplitFrom(s, sep, 1, <<>>)

\* ver.find("rc"): the index of the first occurrence, 0 for None.
FindRc(s) ==
    LET at == {i \in 1..(Len(s) - 1) : s[i] = "r" /\ s[i + 1] = "c"}
    IN IF at = {} THEN 0 ELSE Min(at)

RECURSIVE DecimalValue(_)
DecimalValue(ds) ==
    IF ds = <<>> THEN 0
    ELSE 10 * DecimalValue(SubSeq(ds, 1, Len(ds) - 1)) + DigitVal(ds[Len(ds)])

\* v.parse::<usize>(): an optional `+`, then one or more decimal digits. (The
\* inputs of the model stay far below usize::MAX, where from_str would fail.)
ParseUsize(s) ==
    LET ds == IF s # <<>> /\ s[1] = "+" THEN Tail(s) ELSE s
        ok == ds # <<>> /\ \A i \in 1..Len(ds) : IsDigit(ds[i])
    IN [ok |-> ok, val |-> IF ok THEN DecimalValue(ds) ELSE 0]

\* TakeWhileOk with the components that do not parse skipped (a filter).
RECURSIVE FilterOk(_)
FilterOk(comps) ==
    IF comps = <<>> THEN <<>>
    ELSE IF ~ParseUsize(Head(comps)).ok THEN FilterOk(Tail(comps))
    ELSE <<ParseUsize(Head(comps)).val>> \o FilterOk(Tail(comps))

\* .map(|v| v.parse()).take_while(Result::is_ok).map(Result::unwrap).collect()
RECURSIVE TakeWhileOk(_)
TakeWhileOk(comps) ==
    IF comps = <<>> \/ ~ParseUsize(Head(comps)).ok THEN <<>>
    ELSE <<ParseUsize(Head(comps)).val>> \o TakeWhileOk(Tail(comps))

----------------------------------------------------------------------------
\* The locator's pure parts.

\* Result<(usize, usize, usize), String>, or the panic that ends the call.
VerOk(v) == [tag |-> "Ok", ver |-> v, err |-> NoError]
VerErr(e) == [tag |-> "Err", ver |-> <<>>, err |-> e]
VerPanic == [tag |-> "Panic", ver |-> <<>>, err |-> NoError]
NoVerdict == [tag |-> "", ver |-> <<>>, err |-> NoError]

parse_nasm_version(v) ==
    LET fields == Split(v, " ")
    IN IF Len(fields) < 3 THEN VerErr(Error("Invalid nasm version", NoPath, v, <<>>))
       ELSE LET third == fields[3]
                rc == FindRc(third)
                ver == IF rc # 0 THEN SubSeq(third, 1, rc - 1) ELSE third
                nums == TakeWhileOk(Split(ver, "."))
            IN \* ver[0] of an empty Vec: index out of bounds, the thread panics
               IF nums = <<>> THEN VerPanic
               ELSE VerOk(<<nums[1],
                            IF Len(nums) >= 2 THEN nums[2] ELSE 0,
                            IF Len(nums) >= 3 THEN nums[3] ELSE 0>>)

\* TooOld with each field compared on its own, whatever the fields before it.
TooOldFieldwise(min, ver) ==
    \/ min[1] > ver[1]
    \/ min[2] > ver[2]
    \/ min[3] > ver[3]

\* The condition of lib.rs 414-416, on min = (major, minor, micro).
TooOld(min, ver) ==
    \/ min[1] > ver[1]
    \/ (min[1] = ver[1] /\ min[2] > ver[2])
    \/ (min[1] = ver[1] /\ min[2] = ver[2] /\ min[3] > ver[3])

\* What `<nasm_path> -v` gave: whether get_output returned Ok, and its stdout.
Ran(out) == [ran |-> TRUE, out |-> out]
NoRun == [ran |-> FALSE, out |-> <<>>]

is_nasm_found_and_new_enough(min, nasm_path, resp) ==
    IF ~resp.ran THEN VerErr(Error("Unable to run", nasm_path, <<>>, <<>>))
    ELSE LET p == parse_nasm_version(resp.out)
         IN IF p.tag # "Ok" THEN p
            ELSE IF TooOld(min, p.ver)
                 THEN VerErr(Error("This version of NASM is too old", NoPath, resp.out, min))
                 ELSE VerOk(<<>>)

\* min_version of Build::new
DefaultMinVersion == <<1, 0, 0>>

----------------------------------------------------------------------------
\* Inputs: tool outputs, search paths, source files.

\* "NASM version " and " compiled"
Banner == <<"N", "A", "S", "M", " ", "v", "e", "r", "s", "i", "o", "n", " ">>
Compiled == <<" ", "c", "o", "m", "p", "i", "l", "e", "d">>

RECURSIVE Decimal(_)
Decimal(n) == IF n < 10 THEN <<Digits[n + 1]>> ELSE Decimal(n \div 10) \o <<Digits[(n % 10) + 1]>>

\* The line a tool of version v prints: "NASM version <major>.<minor>.<micro>"
VersionLine(v) == Banner \o Decimal(v[1]) \o <<".">> \o Decimal(v[2]) \o <<".">> \o Decimal(v[3])
Triples == {<<a, b, c>> : a \in 0..MaxVer, b \in 0..MaxVer, c \in 0..MaxVer}
VersionLines == {VersionLine(v) : v \in Triples}

\* Version tokens: up to MaxComps components joined by dots.
Comps == { <<>>, <<"0">>, <<"2">>, <<"1", "4">>, <<"0", "2">>, <<"x">>,
           <<"r", "c", "1">>, <<"1", "4", "r", "c", "2">> }
RECURSIVE JoinDots(_)
JoinDots(cs) == IF Len(cs) = 1 THEN cs[1] ELSE cs[1] \o <<".">> \o JoinDots(Tail(cs))
Tokens == UNION { {JoinDots(cs) : cs \in [1..n -> Comps]} : n \in 1..MaxComps }
\* Outputs with the token as third field, as second field, and as first field,
\* alone or followed by more text.
VersionOutputs ==
    { h \o t \o e : h \in {Banner, SubSeq(Banner, 1, 5), <<>>}, t \in Tokens, e \in {<<>>, Compiled} }

\* What a probed candidate may answer: it does not run, a recent version, an
\* old version, a release candidate without a number, no version at all.
Responses ==
    { NoRun, Ran(VersionLine(<<2, 0, 1>>)), Ran(VersionLine(<<0, 2, 0>>)),
      Ran(Banner \o <<"r", "c", "1">>), Ran(<<"N", "A", "S", "M">>) }

Dirs == {"", "/usr/bin", "/opt/bin"}
\* PATH as split_paths gives it: an unset or empty PATH is one empty directory.
PathLists == UNION { [1..n -> Dirs] : n \in 1..MaxDirs }
BareNasm == Path("", "nasm", "")
OwnNasm == Path("/own", "nasm", "")
AllCandidates == {OwnNasm} \cup {Path(d, "nasm", "") : d \in Dirs}

\* Source files: two with distinct names, and a path with no file name.
Sources == {Path("", "a", "s"), Path("", "b", "s"), Path("..", "", "")}

----------------------------------------------------------------------------
\* Target triples, assembler arguments, library and archiver names.

\* s.starts_with(p), s.ends_with(p), s.trim_end_matches(p)
StartsWith(s, p) == Len(s) >= Len(p) /\ SubSeq(s, 1, Len(p)) = p
EndsWith(s, p) == Len(s) >= Len(p) /\ SubSeq(s, Len(s) - Len(p) + 1, Len(s)) = p
RECURSIVE TrimEndMatches(_, _)
TrimEndMatches(s, p) ==
    IF EndsWith(s, p) THEN TrimEndMatches(SubSeq(s, 1, Len(s) - Len(p)), p) ELSE s

\* x86_64_triple with the formats of x86_triple.
x86_64_triple_as_x86(os) ==
    IF os \in {<<"d", "a", "r", "w", "i", "n">>, <<"i", "o", "s">>} THEN << <<"-", "f", "m", "a", "c", "h", "o", "3", "2">>, <<"-", "g">> >>
    ELSE IF os \in {<<"w", "i", "n", "d", "o", "w", "s">>, <<"u", "e", "f", "i">>} THEN << <<"-", "f", "w", "i", "n", "3", "2">>, <<"-", "g">> >>
    ELSE << <<"-", "f", "e", "l", "f", "3", "2">>, <<"-", "g", "d", "w", "a", "r", "f">> >>

x86_triple(os) ==
    IF os \in {<<"d", "a", "r", "w", "i", "n">>, <<"i", "o", "s">>} THEN << <<"-", "f", "m", "a", "c", "h", "o", "3", "2">>, <<"-", "g">> >>
    ELSE IF os \in {<<"w", "i", "n", "d", "o", "w", "s">>, <<"u", "e", "f", "i">>} THEN << <<"-", "f", "w", "i", "n", "3", "2">>, <<"-", "g">> >>
    ELSE << <<"-", "f", "e", "l", "f", "3", "2">>, <<"-", "g", "d", "w", "a", "r", "f">> >>

x86_64_triple(os) ==
    IF os \in {<<"d", "a", "r", "w", "i", "n">>, <<"i", "o", "s">>} THEN << <<"-", "f", "m", "a", "c", "h", "o", "6", "4">>, <<"-", "g">> >>
    ELSE IF os \in {<<"w", "i", "n", "d", "o", "w", "s">>, <<"u", "e", "f", "i">>} THEN << <<"-", "f", "w", "i", "n", "6", "4">>, <<"-", "g">> >>
    ELSE << <<"-", "f", "e", "l", "f", "6", "4">>, <<"-", "g", "d", "w", "a", "r", "f">> >>

\* (format flag, debug flag) of a triple ARCH-VENDOR-OS or ARCH-VENDOR-OS-ENVIRONMENT
parse_triple(trip) ==
    LET parts == Split(trip, "-")
    IN IF Len(parts) < 3 THEN << <<>>, <<"-", "g">> >>
       ELSE IF parts[1] = <<"x", "8", "6", "_", "6", "4">>
            THEN IF Len(parts) >= 4 /\ parts[4] = <<"g", "n", "u", "x", "3", "2">>
                 THEN << <<"-", "f", "e", "l", "f", "x", "3", "2">>, <<"-", "g", "d", "w", "a", "r", "f">> >>
                 ELSE x86_64_triple(parts[3])
       ELSE IF parts[1] \in {<<"x", "8", "6">>, <<"i", "3", "8", "6">>, <<"i", "5", "8", "6">>, <<"i", "6", "8", "6">>} THEN x86_triple(parts[3])
       ELSE << <<>>, <<"-", "g">> >>

\* get_args on a Build with the given debug and flags
get_args(tgt, dbg, fl) ==
    LET t == parse_triple(tgt)
    IN <<t[1]>> \o (IF dbg THEN <<t[2]>> ELSE <<>>) \o fl

\* get_target: the configured target, or the variable TARGET
get_target == IF target.some THEN target.val ELSE TARGET

\* TrimName with the suffix .lib removed and nothing else.
TrimSuffixOnly(lib) == TrimEndMatches(lib, <<".", "l", "i", "b">>)

\* lib.rs 222-233: the library name without its wrapping, and the file name
\* of the target for it
TrimName(lib) ==
    IF StartsWith(lib, <<"l", "i", "b">>) /\ EndsWith(lib, <<".", "a">>)
    THEN SubSeq(lib, 4, Len(lib) - 2)
    ELSE TrimEndMatches(lib, <<".", "l", "i", "b">>)
OutputName(lib, tgt) ==
    IF EndsWith(tgt, <<"-", "m", "s", "v", "c">>) THEN TrimName(lib) \o <<".", "l", "i", "b">>
    ELSE <<"l", "i", "b">> \o TrimName(lib) \o <<".", "a">>

\* lib.rs 372-381: the archiving style, and the archiver of that style
ar_is_msvc == IF archiver_is_msvc.some THEN archiver_is_msvc.val ELSE target_env_msvc
ArchiverOf(msvc, explicit, env_ar) ==
    IF msvc
    THEN IF explicit.some THEN explicit.val ELSE <<"l", "i", "b">>
    ELSE IF explicit.some THEN explicit.val
         ELSE IF env_ar.some THEN env_ar.val ELSE <<"a", "r">>

----------------------------------------------------------------------------
\* Build::new and the builder calls.

NoneErr == [some |-> FALSE, val |-> NoError]
SomeErr(e) == [some |-> TRUE, val |-> e]

\* Result<Vec<PathBuf>, String> of compile_objects, Result<(), String> of compile
NoRet == [tag |-> "", objs |-> <<>>, err |-> NoError]
RetOk(objs) == [tag |-> "Ok", objs |-> objs, err |-> NoError]
RetErr(e) == [tag |-> "Err", objs |-> <<>>, err |-> e]

\* no second thread
NoRun2 == [pc |-> "none", unit |-> <<>>, handles |-> 0, joined |-> 0]

Build_new ==
    /\ files = <<>>
    /\ nasm = None
    /\ min_version = DefaultMinVersion
    /\ flags = <<>> /\ target = Absent /\ archiver = Absent /\ archiver_is_msvc = Absent
    /\ op = "" /\ pc = "new" /\ ret = NoRet /\ objects = <<>>
    /\ paths = <<>> /\ idx = 0 /\ first_error = NoneErr /\ probed = <<>>
    /\ verdict = NoVerdict /\ found = None
    /\ JOBSERVER = "unset" /\ job_limit = 0 /\ pool = 0 /\ held = 1
    /\ unit = <<>> /\ handles = <<>> /\ thread_results = <<>> /\ overtook = FALSE
    /\ ar_calls = <<>>
    /\ calls = <<>> /\ args = <<>> /\ resolved = <<>> /\ lib_name = <<>> /\ output = <<>>
    /\ ncalls = 0 /\ run2 = NoRun2

Build_file(p) ==
    /\ pc = "new"
    /\ Len(files) < MaxFiles
    /\ files' = Append(files, p)
    /\ UNCHANGED <<nasm, min_version, parallel, bconf, environ, process, callv, findv, jsv, unitv, ar_calls, purev>>

Build_nasm(p) ==
    /\ pc = "new"
    /\ nasm' = Some(p)
    /\ UNCHANGED <<files, min_version, parallel, bconf, environ, process, callv, findv, jsv, unitv, ar_calls, purev>>

Build_min_version(major, minor, micro) ==
    /\ pc = "new"
    /\ min_version' = <<major, minor, micro>>
    /\ UNCHANGED <<files, nasm, parallel, bconf, environ, process, callv, findv, jsv, unitv, ar_calls, purev>>

\* include with the slash added whether or not the directory ends with one.
Build_include_always_slash(dir) ==
    /\ pc = "new"
    /\ Len(calls) < MaxFlags
    /\ flags' = Append(flags, <<"-", "I">> \o dir \o <<"/">>)
    /\ calls' = Append(calls, [call |-> "include", a |-> dir, b |-> Absent])
    /\ UNCHANGED <<files, nasm, min_version, parallel, debug, target, archiver, archiver_is_msvc>>
    /\ UNCHANGED <<environ, process, callv, findv, jsv, unitv, ar_calls, version, triple, resolved, args, lib_name, output>>

\* The calls that push a flag; `calls` keeps what was called, in call order.
Build_include(dir) ==
    /\ pc = "new"
    /\ Len(calls) < MaxFlags
    /\ LET flag == <<"-", "I">> \o dir
       IN flags' = Append(flags, IF ~EndsWith(flag, <<"/">>) THEN flag \o <<"/">> ELSE flag)
    /\ calls' = Append(calls, [call |-> "include", a |-> dir, b |-> Absent])
    /\ UNCHANGED <<files, nasm, min_version, parallel, debug, target, archiver, archiver_is_msvc>>
    /\ UNCHANGED <<environ, process, callv, findv, jsv, unitv, ar_calls, version, triple, resolved, args, lib_name, output>>

Build_define(var, val) ==
    /\ pc = "new"
    /\ Len(calls) < MaxFlags
    /\ flags' = Append(flags, IF val.some THEN <<"-", "D">> \o var \o <<"=">> \o val.val ELSE <<"-", "D">> \o var)
    /\ calls' = Append(calls, [call |-> "define", a |-> var, b |-> val])
    /\ UNCHANGED <<files, nasm, min_version, parallel, debug, target, archiver, archiver_is_msvc>>
    /\ UNCHANGED <<environ, process, callv, findv, jsv, unitv, ar_calls, version, triple, resolved, args, lib_name, output>>

Build_flag(flag) ==
    /\ pc = "new"
    /\ Len(calls) < MaxFlags
    /\ flags' = Append(flags, flag)
    /\ calls' = Append(calls, [call |-> "flag", a |-> flag, b |-> Absent])
    /\ UNCHANGED <<files, nasm, min_version, parallel, debug, target, archiver, archiver_is_msvc>>
    /\ UNCHANGED <<environ, process, callv, findv, jsv, unitv, ar_calls, version, triple, resolved, args, lib_name, output>>

Build_debug(enable) ==
    /\ pc = "new"
    /\ debug' = enable
    /\ UNCHANGED <<files, nasm, min_version, parallel, flags, target, archiver, archiver_is_msvc>>
    /\ UNCHANGED <<environ, process, callv, findv, jsv, unitv, ar_calls, purev>>

Build_target(t) ==
    /\ pc = "new"
    /\ target' = Given(t)
    /\ UNCHANGED <<files, nasm, min_version, parallel, flags, debug, archiver, archiver_is_msvc>>
    /\ UNCHANGED <<environ, process, callv, findv, jsv, unitv, ar_calls, purev>>

Build_archiver(a) ==
    /\ pc = "new"
    /\ archiver' = Given(a)
    /\ UNCHANGED <<files, nasm, min_version, parallel, flags, debug, target, archiver_is_msvc>>
    /\ UNCHANGED <<environ, process, callv, findv, jsv, unitv, ar_calls, purev>>

Build_archiver_is_msvc(is_msvc) ==
    /\ pc = "new"
    /\ archiver_is_msvc' = Given(is_msvc)
    /\ UNCHANGED <<files, nasm, min_version, parallel, flags, debug, target, archiver>>
    /\ UNCHANGED <<environ, process, callv, findv, jsv, unitv, ar_calls, purev>>

\* Direct calls of get_args and of parse_triple, as the crate's tests make them.
GetArgs ==
    /\ pc = "new"
    /\ args' = get_args(get_target, debug, flags)
    /\ pc' = "args"
    /\ UNCHANGED <<config, environ, process, op, ret, objects, findv, jsv, unitv, ar_calls>>
    /\ UNCHANGED <<version, triple, resolved, calls, lib_name, output>>

ParseTriple ==
    /\ pc = "new"
    /\ resolved' = parse_triple(triple)
    /\ pc' = "resolved"
    /\ UNCHANGED <<config, environ, process, op, ret, objects, findv, jsv, unitv, ar_calls>>
    /\ UNCHANGED <<version, triple, calls, args, lib_name, output>>

----------------------------------------------------------------------------
\* compile, compile_objects and find_nasm.

\* compile: up to the call of compile_objects, and compile_objects up to the
\* call of find_nasm.
Build_compile(lib) ==
    /\ pc = "new"
    /\ op' = "compile"
    /\ lib_name' = lib
    /\ output' = OutputName(lib, get_target)
    /\ pc' = "find_nasm"
    /\ UNCHANGED <<config, environ, process, ret, objects, findv, jsv, unitv, ar_calls>>
    /\ UNCHANGED <<version, triple, resolved, calls, args>>

Build_compile_objects ==
    /\ pc = "new"
    /\ op' = "compile_objects"
    /\ pc' = "find_nasm"
    /\ UNCHANGED <<config, environ, process, ret, objects, findv, jsv, unitv, ar_calls, purev>>

\* lib.rs 428-439: the explicit path alone, or `nasm` and <dir>/nasm per PATH entry
Candidates(explicit, path) ==
    IF explicit.some THEN <<explicit.val>>
    ELSE <<BareNasm>> \o [i \in 1..Len(path) |-> Path(path[i], "nasm", "")]

Build_find_nasm ==
    /\ pc = "find_nasm"
    /\ paths' = Candidates(nasm, PATH)
    /\ idx' = 1
    /\ first_error' = NoneErr
    /\ pc' = "probe"
    /\ UNCHANGED <<config, environ, process, op, ret, objects, probed, verdict, found, jsv, unitv, ar_calls, purev>>

\* first_error.get_or_insert(err)
GetOrInsert(opt, err) == IF opt.some THEN opt ELSE SomeErr(err)

\* One iteration of the loop of lib.rs 442-449. Ok returns the candidate to
\* compile_objects, which goes on to compile_objects_inner; a panic of
\* parse_nasm_version unwinds out of the call.
Probe ==
    /\ pc = "probe"
    /\ idx <= Len(paths)
    /\ LET nasm_path == paths[idx]
           r == is_nasm_found_and_new_enough(min_version, nasm_path, toolOut[nasm_path])
       IN /\ probed' = Append(probed, nasm_path)
          /\ verdict' = r
          /\ found' = IF r.tag = "Ok" THEN Some(nasm_path) ELSE found
          /\ first_error' = IF r.tag = "Err" THEN GetOrInsert(first_error, r.err) ELSE first_error
          /\ idx' = IF r.tag = "Err" THEN idx + 1 ELSE idx
          /\ pc' = IF r.tag = "Ok" THEN "inner" ELSE IF r.tag = "Err" THEN "probe" ELSE "panicked"
    /\ UNCHANGED <<config, environ, process, op, ret, objects, paths, jsv, unitv, ar_calls, purev>>

\* lib.rs 450, and the `?` of compile_objects and of compile
FindFailed ==
    /\ pc = "probe"
    /\ idx > Len(paths)
    /\ ret' = IF first_error.some THEN RetErr(first_error.val) ELSE ret
    /\ pc' = IF first_error.some THEN "returned" ELSE "panicked"
    /\ UNCHANGED <<config, environ, process, op, objects, findv, jsv, unitv, ar_calls, purev>>

\* A direct call of parse_nasm_version, as the crate's tests make it.
ParseVersion ==
    /\ pc = "new"
    /\ verdict' = parse_nasm_version(version)
    /\ pc' = "parsed"
    /\ UNCHANGED <<config, environ, process, op, ret, objects, paths, idx, first_error, probed, found, jsv, unitv, ar_calls, purev>>

\* A build for Linux on a Linux host: DEBUG and AR are not set, and no
\* direct call of parse_triple is made.
LinuxTarget == <<"x", "8", "6", "_", "6", "4", "-", "u", "n", "k", "n", "o", "w", "n", "-", "l", "i", "n", "u", "x", "-", "g", "n", "u">>
Foo == <<"f", "o", "o">>
PlainBuild ==
    /\ debug = FALSE
    /\ TARGET = LinuxTarget
    /\ AR = Absent
    /\ target_env_msvc = FALSE
    /\ triple = <<>>

----------------------------------------------------------------------------
\* Specifications of the locator.

\* find_nasm over every PATH and every answer of every candidate
InitFind ==
    /\ Build_new
    /\ parallel \in BOOLEAN
    /\ PATH \in PathLists
    /\ toolOut \in [AllCandidates -> Responses]
    /\ version = <<>>
    /\ PlainBuild
NextFind ==
    \/ Build_nasm(OwnNasm)
    \/ Build_compile_objects
    \/ Build_find_nasm
    \/ Probe
    \/ FindFailed
SpecFind == InitFind /\ [][NextFind]_vars

\* the version check of one candidate, for every version and every minimum
InitVersion ==
    /\ Build_new
    /\ parallel = TRUE
    /\ PATH = <<"">>
    /\ toolOut \in {[c \in AllCandidates |-> Ran(l)] : l \in VersionLines}
    /\ version = <<>>
    /\ PlainBuild
NextVersion ==
    \/ \E v \in Triples : Build_min_version(v[1], v[2], v[3])
    \/ Build_nasm(OwnNasm)
    \/ Build_compile_objects
    \/ Build_find_nasm
    \/ Probe
    \/ FindFailed
SpecVersion == InitVersion /\ [][NextVersion]_vars

\* parse_nasm_version on every output
InitParse ==
    /\ Build_new
    /\ parallel = TRUE
    /\ PATH = <<"">>
    /\ toolOut = [c \in AllCandidates |-> NoRun]
    /\ version \in VersionOutputs
    /\ PlainBuild
NextParse == ParseVersion
SpecParse == InitParse /\ [][NextParse]_vars

----------------------------------------------------------------------------
\* Specifications of the pure parts of the argument builder.

\* Triples of one to four parts
Archs == {<<"x", "8", "6", "_", "6", "4">>, <<"x", "8", "6">>, <<"i", "3", "8", "6">>, <<"i", "5", "8", "6">>, <<"i", "6", "8", "6">>, <<"a", "a", "r", "c", "h", "6", "4">>, <<>>}
Vendors == {<<"u", "n", "k", "n", "o", "w", "n">>, <<"p", "c">>, <<"a", "p", "p", "l", "e">>}
Systems == {<<"l", "i", "n", "u", "x">>, <<"d", "a", "r", "w", "i", "n">>, <<"i", "o", "s">>, <<"w", "i", "n", "d", "o", "w", "s">>, <<"u", "e", "f", "i">>, <<"n", "o", "n", "e">>}
Environments == {<<"g", "n", "u", "x", "3", "2">>, <<"m", "s", "v", "c">>, <<"g", "n", "u">>}
Dash == <<"-">>
TripleInputs ==
    Archs
    \cup {a \o Dash \o v : a \in Archs, v \in Vendors}
    \cup {a \o Dash \o v \o Dash \o o : a \in Archs, v \in Vendors, o \in Systems}
    \cup {a \o Dash \o v \o Dash \o o \o Dash \o e : a \in Archs, v \in Vendors, o \in Systems, e \in Environments}

\* parse_triple on every triple
InitTriple ==
    /\ Build_new
    /\ parallel = TRUE
    /\ PATH = <<"">>
    /\ toolOut = [c \in AllCandidates |-> NoRun]
    /\ version = <<>>
    /\ debug = FALSE /\ TARGET = LinuxTarget /\ AR = Absent /\ target_env_msvc = FALSE
    /\ triple \in TripleInputs
NextTriple == ParseTriple
SpecTriple == InitTriple /\ [][NextTriple]_vars

\* What the builder calls are given: directories, macros, flags, targets
IncludeDirs == {<<".", "/">>, <<"d", "i", "r">>}
Defines == {[var |-> <<"f", "o", "o">>, val |-> Given(<<"1">>)], [var |-> <<"b", "a", "r">>, val |-> Absent]}
UserFlags == {<<"-", "t", "e", "s", "t">>}
Targets == {<<"i", "6", "8", "6", "-", "u", "n", "k", "n", "o", "w", "n", "-", "l", "i", "n", "u", "x", "-", "m", "u", "s", "l">>, <<"x", "8", "6", "_", "6", "4", "-", "p", "c", "-", "w", "i", "n", "d", "o", "w", "s", "-", "m", "s", "v", "c">>}

\* get_args after every sequence of include, define, flag and debug calls
InitArgs ==
    /\ Build_new
    /\ parallel = TRUE
    /\ PATH = <<"">>
    /\ toolOut = [c \in AllCandidates |-> NoRun]
    /\ version = <<>>
    /\ debug \in BOOLEAN /\ TARGET \in Targets /\ AR = Absent /\ target_env_msvc = FALSE
    /\ triple = <<>>
NextArgs ==
    \/ \E d \in IncludeDirs : Build_include(d)
    \/ \E m \in Defines : Build_define(m.var, m.val)
    \/ \E f \in UserFlags : Build_flag(f)
    \/ \E b \in BOOLEAN : Build_debug(b)
    \/ GetArgs
SpecArgs == InitArgs /\ [][NextArgs]_vars

----------------------------------------------------------------------------
\* compile_file and run.

\* get_out_dir: the configured directory
get_out_dir == "out"

\* Result<PathBuf, String> of compile_file, or the panic of its thread
NoRes == [tag |-> "", obj |-> NoPath, err |-> NoError]
ResOk(obj) == [tag |-> "Ok", obj |-> obj, err |-> NoError]
ResErr(e) == [tag |-> "Err", obj |-> NoPath, err |-> e]
ResPanic == [tag |-> "Panic", obj |-> NoPath, err |-> NoError]

\* file.file_name() is None for a path that ends in `..`
HasFileName(file) == file.stem # ""

\* dst.join(file.file_name().unwrap()).with_extension("o")
ObjectOf(file) == Path(get_out_dir, file.stem, "o")

ExitStatuses == {0, 1}
SpawnFailed == Error("failed to spawn process", NoPath, <<>>, <<>>)
NonzeroExit == Error("nonzero exit status", NoPath, <<>>, <<>>)

\* compile_file up to the start of the assembler: the unwrap of line 362 panics
\* without a file name, and run returns at once when the process cannot start.
\* A unit is idle, ready (its worker holds a token), running (its assembler is
\* in flight), exited (its result is known) and done (the worker has ended).
StartOf(file, spawned) ==
    IF ~HasFileName(file) THEN [st |-> "exited", res |-> ResPanic]
    ELSE IF ~spawned THEN [st |-> "exited", res |-> ResErr(SpawnFailed)]
    ELSE [st |-> "running", res |-> NoRes]

\* run and compile_file once the assembler has exited
ExitOf(file, status) ==
    [st |-> "exited", res |-> IF status # 0 THEN ResErr(NonzeroExit) ELSE ResOk(ObjectOf(file))]

Idle == [st |-> "idle", res |-> NoRes]
InFlight == {i \in DOMAIN unit : unit[i].st = "running"}

----------------------------------------------------------------------------
\* The end of compile_objects_inner: back in compile_objects, then in compile.

RetPanic == [tag |-> "Panic", objs |-> <<>>, err |-> NoError]

\* Finish with compile going on to the archiver whatever r is.
FinishThenArchive(r) ==
    LET archive == op = "compile" /\ r.tag # "Panic"
    IN /\ pc' = IF r.tag = "Panic" THEN "panicked" ELSE IF archive THEN "archive" ELSE "returned"
       /\ ret' = IF r.tag = "Panic" \/ archive THEN ret ELSE r
       /\ objects' = IF archive THEN r.objs ELSE objects

\* r is what compile_objects_inner gives: compile_objects returns it, and
\* compile returns its error (`?`) or goes on to archive the objects; a
\* resumed panic unwinds out of both.
Finish(r) ==
    LET archive == op = "compile" /\ r.tag = "Ok"
    IN /\ pc' = IF r.tag = "Panic" THEN "panicked" ELSE IF archive THEN "archive" ELSE "returned"
       /\ ret' = IF r.tag = "Panic" \/ archive THEN ret ELSE r
       /\ objects' = IF archive THEN r.objs ELSE objects

----------------------------------------------------------------------------
\* compile_objects_inner with the feature "parallel".

\* JOBSERVER.get_or_init: the jobserver of the environment, of which this
\* process holds one token already ...
JobserverFromEnv ==
    /\ pc = "inner" /\ parallel
    /\ JOBSERVER = "unset"
    /\ \E k \in 1..MaxJobs :
        /\ job_limit' = k
        /\ pool' = k - 1
    /\ JOBSERVER' = "set"
    /\ pc' = "release"
    /\ UNCHANGED <<config, environ, process, op, ret, objects, findv, held, unitv, ar_calls, purev>>

\* JobserverLocal without the acquire_raw of line 284.
JobserverLocalUnreserved ==
    /\ pc = "inner" /\ parallel
    /\ JOBSERVER = "unset"
    /\ \E k \in 1..MaxJobs :
        /\ job_limit' = k
        /\ pool' = k
    /\ JOBSERVER' = "set"
    /\ pc' = "release"
    /\ UNCHANGED <<config, environ, process, op, ret, objects, findv, held, unitv, ar_calls, purev>>

\* ... or a new one of NUM_JOBS tokens, one of which is taken out for the slot
\* this process occupies.
JobserverLocal ==
    /\ pc = "inner" /\ parallel
    /\ JOBSERVER = "unset"
    /\ \E k \in 1..MaxJobs :
        /\ job_limit' = k
        /\ pool' = k - 1
    /\ JOBSERVER' = "set"
    /\ pc' = "release"
    /\ UNCHANGED <<config, environ, process, op, ret, objects, findv, held, unitv, ar_calls, purev>>

\* JobserverReuse with a token reserved again, as at the creation.
JobserverReuseReserving ==
    /\ pc = "inner" /\ parallel
    /\ JOBSERVER = "set"
    /\ pool > 0
    /\ pool' = pool - 1
    /\ pc' = "release"
    /\ UNCHANGED <<config, environ, process, op, ret, objects, findv, JOBSERVER, job_limit, held, unitv, ar_calls, purev>>

\* JOBSERVER.get_or_init in a later call: the jobserver is there already
JobserverReuse ==
    /\ pc = "inner" /\ parallel
    /\ JOBSERVER = "set"
    /\ pc' = "release"
    /\ UNCHANGED <<config, environ, process, op, ret, objects, findv, jsv, unitv, ar_calls, purev>>

\* ReleaseImplicit without the release_raw of line 293.
EnterWithoutRelease ==
    /\ pc = "release"
    /\ unit' = [i \in 1..Len(files) |-> Idle]
    /\ handles' = <<>>
    /\ thread_results' = <<>>
    /\ overtook' = FALSE
    /\ pc' = "dispatch"
    /\ UNCHANGED <<config, environ, process, op, ret, objects, findv, jsv, ar_calls, purev>>

\* jobserver.release_raw(), and the scope is entered with nothing spawned
ReleaseImplicit ==
    /\ pc = "release"
    /\ pool' = pool + 1
    /\ held' = held - 1
    /\ unit' = [i \in 1..Len(files) |-> Idle]
    /\ handles' = <<>>
    /\ thread_results' = <<>>
    /\ overtook' = FALSE
    /\ pc' = "dispatch"
    /\ UNCHANGED <<config, environ, process, op, ret, objects, findv, JOBSERVER, job_limit, ar_calls, purev>>

\* Dispatch that stops handing out files once a unit has failed.
DispatchUnlessFailed ==
    /\ pc = "dispatch"
    /\ Len(handles) < Len(files)
    /\ pool > 0
    /\ \A j \in DOMAIN unit : unit[j].res.tag # "Err"
    /\ LET i == Len(handles) + 1
       IN /\ pool' = pool - 1
          /\ unit' = [unit EXCEPT ![i].st = "ready"]
          /\ handles' = Append(handles, i)
    /\ UNCHANGED <<config, environ, process, callv, findv, JOBSERVER, job_limit, held, thread_results, overtook, ar_calls, purev>>

\* One iteration of the loop of lib.rs 298-308: acquire a token, spawn the worker.
Dispatch ==
    /\ pc = "dispatch"
    /\ Len(handles) < Len(files)
    /\ pool > 0
    /\ LET i == Len(handles) + 1
       IN /\ pool' = pool - 1
          /\ unit' = [unit EXCEPT ![i].st = "ready"]
          /\ handles' = Append(handles, i)
    /\ UNCHANGED <<config, environ, process, callv, findv, JOBSERVER, job_limit, held, thread_results, overtook, ar_calls, purev>>

\* An earlier unit than i has its worker but not yet its result.
Pending(i) == \E j \in 1..(i - 1) : unit[j].st \in {"ready", "running"}

\* A worker: compile_file, drop(token), and the end of the thread.
WorkerStart(i) ==
    /\ unit[i].st = "ready"
    /\ \E spawned \in BOOLEAN : unit' = [unit EXCEPT ![i] = StartOf(files[i], spawned)]
    /\ overtook' = (overtook \/ (unit'[i].st = "exited" /\ Pending(i)))
    /\ UNCHANGED <<config, environ, process, callv, findv, jsv, handles, thread_results, ar_calls, purev>>

WorkerExit(i) ==
    /\ parallel
    /\ unit[i].st = "running"
    /\ \E status \in ExitStatuses : unit' = [unit EXCEPT ![i] = ExitOf(files[i], status)]
    /\ overtook' = (overtook \/ Pending(i))
    /\ UNCHANGED <<config, environ, process, callv, findv, jsv, handles, thread_results, ar_calls, purev>>

\* WorkerDrop with the token kept by the thread that has ended.
WorkerEndKeepsToken(i) ==
    /\ parallel
    /\ unit[i].st = "exited"
    /\ unit' = [unit EXCEPT ![i].st = "done"]
    /\ UNCHANGED <<config, environ, process, callv, findv, jsv, handles, thread_results, overtook, ar_calls, purev>>

\* drop(token), or the drop of the unwinding; the thread ends
WorkerDrop(i) ==
    /\ parallel
    /\ unit[i].st = "exited"
    /\ pool' = pool + 1
    /\ unit' = [unit EXCEPT ![i].st = "done"]
    /\ UNCHANGED <<config, environ, process, callv, findv, JOBSERVER, job_limit, held, handles, thread_results, overtook, ar_calls, purev>>

\* Join with the handles taken from the back of the Vec.
JoinNewestFirst ==
    /\ pc = "dispatch"
    /\ Len(handles) = Len(files)
    /\ Len(thread_results) < Len(handles)
    /\ LET h == handles[Len(handles) - Len(thread_results)]
       IN /\ unit[h].st = "done"
          /\ thread_results' = Append(thread_results, unit[h].res)
    /\ UNCHANGED <<config, environ, process, callv, findv, jsv, unit, handles, overtook, ar_calls, purev>>

\* handles.into_iter().map(|h| h.join()).collect(): the next handle's thread
\* has ended and its result is taken. The loop is entered when every file has
\* its worker.
Join ==
    /\ pc = "dispatch"
    /\ Len(handles) = Len(files)
    /\ Len(thread_results) < Len(handles)
    /\ LET h == handles[Len(thread_results) + 1]
       IN /\ unit[h].st = "done"
          /\ thread_results' = Append(thread_results, unit[h].res)
    /\ UNCHANGED <<config, environ, process, callv, findv, jsv, unit, handles, overtook, ar_calls, purev>>

\* ReacquireImplicit without the acquire_raw of line 315.
LeaveWithoutToken ==
    /\ pc = "dispatch"
    /\ Len(handles) = Len(files)
    /\ Len(thread_results) = Len(handles)
    /\ pc' = "collect"
    /\ UNCHANGED <<config, environ, process, op, ret, objects, findv, jsv, unitv, ar_calls, purev>>

\* jobserver.acquire_raw(), once the scope has ended
ReacquireImplicit ==
    /\ pc = "dispatch"
    /\ Len(handles) = Len(files)
    /\ Len(thread_results) = Len(handles)
    /\ pool > 0
    /\ pool' = pool - 1
    /\ held' = held + 1
    /\ pc' = "collect"
    /\ UNCHANGED <<config, environ, process, op, ret, objects, findv, JOBSERVER, job_limit, unitv, ar_calls, purev>>

\* CollectFrom with the last result that is not Ok deciding.
RECURSIVE CollectLast(_, _)
CollectLast(rs, acc) ==
    IF rs = <<>> THEN RetOk(acc)
    ELSE LET rest == CollectLast(Tail(rs), Append(acc, Head(rs).obj))
         IN IF rest.tag # "Ok" THEN rest
            ELSE IF Head(rs).tag = "Panic" THEN RetPanic
            ELSE IF Head(rs).tag = "Err" THEN RetErr(Head(rs).err)
            ELSE rest

\* lib.rs 318-321: the results in order, up to the first that is not Ok: a
\* panic is resumed, an error is returned.
RECURSIVE CollectFrom(_, _)
CollectFrom(rs, acc) ==
    IF rs = <<>> THEN RetOk(acc)
    ELSE IF Head(rs).tag = "Panic" THEN RetPanic
    ELSE IF Head(rs).tag = "Err" THEN RetErr(Head(rs).err)
    ELSE CollectFrom(Tail(rs), Append(acc, Head(rs).obj))

Collect ==
    /\ pc = "collect"
    /\ Finish(CollectFrom(thread_results, <<>>))
    /\ UNCHANGED <<config, environ, process, op, findv, jsv, unitv, ar_calls, purev>>

----------------------------------------------------------------------------
\* compile_objects_inner without the feature "parallel": the files in order,
\* each compiled to its end before the next, up to the first error.

SeqEnter ==
    /\ pc = "inner" /\ ~parallel
    /\ unit' = [i \in 1..Len(files) |-> Idle]
    /\ thread_results' = <<>>
    /\ IF files = <<>> THEN Finish(RetOk(<<>>)) ELSE pc' = "seq" /\ UNCHANGED <<ret, objects>>
    /\ UNCHANGED <<config, environ, process, op, findv, jsv, handles, overtook, ar_calls, purev>>

SeqStart ==
    /\ pc = "seq"
    /\ LET i == Len(thread_results) + 1
       IN /\ unit[i].st = "idle"
          /\ \E spawned \in BOOLEAN :
               LET u == StartOf(files[i], spawned)
               IN /\ unit' = [unit EXCEPT ![i] = u]
                  /\ IF u.st = "running" THEN UNCHANGED <<pc, ret, objects>> ELSE Finish(CollectFrom(<<u.res>>, <<>>))
    /\ UNCHANGED <<config, environ, process, op, findv, jsv, handles, thread_results, overtook, ar_calls, purev>>

\* SeqExit with the next file compiled after an error too.
SeqExitKeepGoing ==
    /\ pc = "seq"
    /\ LET i == Len(thread_results) + 1
       IN /\ unit[i].st = "running"
          /\ \E status \in ExitStatuses :
               LET u == ExitOf(files[i], status)
                   rs == Append(thread_results, u.res)
               IN /\ unit' = [unit EXCEPT ![i] = [u EXCEPT !.st = "done"]]
                  /\ thread_results' = rs
                  /\ IF i < Len(files)
                     THEN UNCHANGED <<pc, ret, objects>>
                     ELSE Finish(CollectFrom(rs, <<>>))
    /\ UNCHANGED <<config, environ, process, op, findv, jsv, handles, overtook, ar_calls, purev>>

SeqExit ==
    /\ pc = "seq"
    /\ LET i == Len(thread_results) + 1
       IN /\ unit[i].st = "running"
          /\ \E status \in ExitStatuses :
               LET u == ExitOf(files[i], status)
                   rs == Append(thread_results, u.res)
               IN /\ unit' = [unit EXCEPT ![i] = [u EXCEPT !.st = "done"]]
                  /\ thread_results' = rs
                  /\ IF u.res.tag = "Ok" /\ i < Len(files)
                     THEN UNCHANGED <<pc, ret, objects>>
                     ELSE Finish(CollectFrom(rs, <<>>))
    /\ UNCHANGED <<config, environ, process, op, findv, jsv, handles, overtook, ar_calls, purev>>

----------------------------------------------------------------------------
\* archive: one run of the archiver over the objects, and the end of compile.

Archive ==
    /\ pc = "archive"
    /\ \E spawned \in BOOLEAN, status \in ExitStatuses :
        /\ ar_calls' = Append(ar_calls, [ar |-> ArchiverOf(ar_is_msvc, archiver, AR), msvc |-> ar_is_msvc,
                                         lib |-> output, objs |-> objects,
                                         spawned |-> spawned, status |-> status])
        /\ ret' = IF ~spawned THEN RetErr(SpawnFailed)
                  ELSE IF status # 0 THEN RetErr(NonzeroExit) ELSE RetOk(<<>>)
    /\ pc' = "returned"
    /\ UNCHANGED <<config, environ, process, op, objects, findv, jsv, unitv, purev>>

----------------------------------------------------------------------------
\* The pipeline: a Build with up to MaxFiles files, one call of compile or
\* compile_objects, with either variant of compile_objects_inner.

Init ==
    /\ Build_new
    /\ parallel \in BOOLEAN
    /\ PATH = <<"">>
    /\ toolOut \in {[c \in AllCandidates |-> r] : r \in Responses}
    /\ version = <<>>
    /\ PlainBuild

\* compile without the feature "parallel", for every library name, target,
\* archiver configuration and AR
LibNames == {<<"f", "o", "o">>, <<"l", "i", "b", "f", "o", "o", ".", "a">>, <<"f", "o", "o", ".", "l", "i", "b">>, <<"b", "a", "r">>}
MsvcTarget == <<"x", "8", "6", "_", "6", "4", "-", "p", "c", "-", "w", "i", "n", "d", "o", "w", "s", "-", "m", "s", "v", "c">>
InitArchive ==
    /\ Build_new
    /\ parallel = FALSE
    /\ PATH = <<"">>
    /\ toolOut = [c \in AllCandidates |-> Ran(VersionLine(<<2, 0, 1>>))]
    /\ version = <<>>
    /\ debug = FALSE
    /\ TARGET \in {LinuxTarget, MsvcTarget}
    /\ AR \in {Absent, Given(<<"l", "l", "v", "m", "-", "a", "r">>)}
    /\ target_env_msvc \in BOOLEAN
    /\ triple = <<>>
NextArchive ==
    \/ Build_file(Path("", "a", "s"))
    \/ Build_archiver(<<"m", "y", "-", "a", "r">>)
    \/ \E b \in BOOLEAN : Build_archiver_is_msvc(b)
    \/ \E lib \in LibNames : Build_compile(lib)
    \/ Build_find_nasm
    \/ Probe
    \/ SeqEnter
    \/ SeqStart
    \/ SeqExit
    \/ Archive
SpecArchive == InitArchive /\ [][NextArchive]_vars

Worker(i) == i \in DOMAIN unit /\ (WorkerStart(i) \/ WorkerExit(i) \/ WorkerDrop(i))

Next ==
    \/ \E p \in Sources : Build_file(p)
    \/ Build_compile(Foo)
    \/ Build_compile_objects
    \/ Build_find_nasm
    \/ Probe
    \/ FindFailed
    \/ JobserverFromEnv
    \/ JobserverLocal
    \/ ReleaseImplicit
    \/ Dispatch
    \/ \E i \in 1..MaxFiles : Worker(i)
    \/ Join
    \/ ReacquireImplicit
    \/ Collect
    \/ SeqEnter
    \/ SeqStart
    \/ SeqExit
    \/ Archive

Spec == Init /\ [][Next]_vars

\* After a call has returned, or has unwound with a unit's panic that its
\* caller caught, the process makes a new Build for another call; the static
\* JOBSERVER and its tokens stay as they are.
AnotherBuild ==
    /\ pc \in {"returned", "panicked"}
    /\ ncalls + 1 < MaxCalls
    /\ ncalls' = ncalls + 1
    /\ files' = <<>> /\ nasm' = None /\ min_version' = DefaultMinVersion
    /\ flags' = <<>> /\ target' = Absent /\ archiver' = Absent /\ archiver_is_msvc' = Absent
    /\ op' = "" /\ pc' = "new" /\ ret' = NoRet /\ objects' = <<>>
    /\ paths' = <<>> /\ idx' = 0 /\ first_error' = NoneErr /\ probed' = <<>>
    /\ verdict' = NoVerdict /\ found' = None
    /\ unit' = <<>> /\ handles' = <<>> /\ thread_results' = <<>> /\ overtook' = FALSE
    /\ UNCHANGED <<parallel, debug, environ, jsv, ar_calls, run2, purev>>

\* Calls of the parallel compile_objects one after the other in one process
InitCalls ==
    /\ Build_new
    /\ parallel = TRUE
    /\ PATH = <<"">>
    /\ toolOut = [c \in AllCandidates |-> Ran(VersionLine(<<2, 0, 1>>))]
    /\ version = <<>>
    /\ PlainBuild
NextCalls ==
    \/ \E p \in Sources : Build_file(p)
    \/ Build_compile_objects
    \/ Build_find_nasm
    \/ Probe
    \/ JobserverFromEnv
    \/ JobserverLocal
    \/ JobserverReuse
    \/ ReleaseImplicit
    \/ Dispatch
    \/ \E i \in 1..MaxFiles : Worker(i)
    \/ Join
    \/ ReacquireImplicit
    \/ Collect
    \/ AnotherBuild
SpecCalls == InitCalls /\ [][NextCalls]_vars

----------------------------------------------------------------------------
\* compile_objects_inner of a second Build on a second thread of the process.
\* Of this run the model keeps what it does with the jobserver: its position,
\* the state of each unit, the number of workers spawned (handles) and joined.

\* the thread enters compile_objects_inner with n source files
Run2_enter(n) ==
    /\ parallel
    /\ run2.pc = "none"
    /\ run2' = [pc |-> "inner", unit |-> [i \in 1..n |-> "idle"], handles |-> 0, joined |-> 0]
    /\ UNCHANGED <<config, environ, ncalls, callv, findv, jsv, unitv, ar_calls, purev>>

\* JOBSERVER.get_or_init (272-287): the initialiser runs if this thread is
\* the first to get there, and then as in JobserverFromEnv and JobserverLocal
Run2_jobserver ==
    /\ run2.pc = "inner"
    /\ IF JOBSERVER = "unset"
       THEN /\ \E k \in 1..MaxJobs :
                /\ job_limit' = k
                /\ pool' = k - 1
            /\ JOBSERVER' = "set"
       ELSE UNCHANGED <<JOBSERVER, job_limit, pool>>
    /\ run2' = [run2 EXCEPT !.pc = "release"]
    /\ UNCHANGED <<config, environ, ncalls, callv, findv, held, unitv, ar_calls, purev>>

\* jobserver.release_raw() (293)
Run2_release ==
    /\ run2.pc = "release"
    /\ pool' = pool + 1
    /\ held' = held - 1
    /\ run2' = [run2 EXCEPT !.pc = "dispatch"]
    /\ UNCHANGED <<config, environ, ncalls, callv, findv, JOBSERVER, job_limit, unitv, ar_calls, purev>>

\* one iteration of the loop of 298-308
Run2_dispatch ==
    /\ run2.pc = "dispatch"
    /\ run2.handles < Len(run2.unit)
    /\ pool > 0
    /\ pool' = pool - 1
    /\ run2' = [run2 EXCEPT !.unit[run2.handles + 1] = "ready", !.handles = @ + 1]
    /\ UNCHANGED <<config, environ, ncalls, callv, findv, JOBSERVER, job_limit, held, unitv, ar_calls, purev>>

\* a worker: the assembler is spawned, exits, and the token is dropped (304)
Run2_worker(i) ==
    /\ i \in DOMAIN run2.unit
    /\ \/ /\ run2.unit[i] = "ready"
          /\ run2' = [run2 EXCEPT !.unit[i] = "running"]
          /\ UNCHANGED pool
       \/ /\ run2.unit[i] = "running"
          /\ run2' = [run2 EXCEPT !.unit[i] = "exited"]
          /\ UNCHANGED pool
       \/ /\ run2.unit[i] = "exited"
          /\ run2' = [run2 EXCEPT !.unit[i] = "done"]
          /\ pool' = pool + 1
    /\ UNCHANGED <<config, environ, ncalls, callv, findv, JOBSERVER, job_limit, held, unitv, ar_calls, purev>>

\* h.join() (311) of the next handle, once its worker has ended
Run2_join ==
    /\ run2.pc = "dispatch"
    /\ run2.handles = Len(run2.unit)
    /\ run2.joined < run2.handles
    /\ run2.unit[run2.joined + 1] = "done"
    /\ run2' = [run2 EXCEPT !.joined = @ + 1]
    /\ UNCHANGED <<config, environ, ncalls, callv, findv, jsv, unitv, ar_calls, purev>>

\* jobserver.acquire_raw() (315), and the run returns
Run2_reacquire ==
    /\ run2.pc = "dispatch"
    /\ run2.joined = Len(run2.unit)
    /\ pool > 0
    /\ pool' = pool - 1
    /\ held' = held + 1
    /\ run2' = [run2 EXCEPT !.pc = "returned"]
    /\ UNCHANGED <<config, environ, ncalls, callv, findv, JOBSERVER, job_limit, unitv, ar_calls, purev>>

InFlight2 == {i \in DOMAIN run2.unit : run2.unit[i] = "running"}

\* Two Builds on two threads of one process, each in the parallel
\* compile_objects
TwoRunsSources == {Path("", "a", "s")}
InitTwoRuns ==
    /\ Build_new
    /\ parallel = TRUE
    /\ PATH = <<"">>
    /\ toolOut = [c \in AllCandidates |-> Ran(VersionLine(<<2, 0, 1>>))]
    /\ version = <<>>
    /\ PlainBuild
NextTwoRuns ==
    \/ \E p \in TwoRunsSources : Build_file(p)
    \/ Build_compile_objects
    \/ Build_find_nasm
    \/ Probe
    \/ JobserverFromEnv
    \/ JobserverLocal
    \/ JobserverReuse
    \/ ReleaseImplicit
    \/ Dispatch
    \/ \E i \in 1..MaxFiles : Worker(i)
    \/ Join
    \/ ReacquireImplicit
    \/ Collect
    \/ \E n \in 1..MaxFiles2 : Run2_enter(n)
    \/ Run2_jobserver
    \/ Run2_release
    \/ Run2_dispatch
    \/ \E i \in 1..MaxFiles2 : Run2_worker(i)
    \/ Run2_join
    \/ Run2_reacquire
SpecTwoRuns == InitTwoRuns /\ [][NextTwoRuns]_vars

\* The parallel compile_objects over source files of different directories
\* that have the same file name
SameNameSources == {Path("", "a", "s"), Path("sub", "a", "s")}
InitSameName ==
    /\ Build_new
    /\ parallel = TRUE
    /\ PATH = <<"">>
    /\ toolOut = [c \in AllCandidates |-> Ran(VersionLine(<<2, 0, 1>>))]
    /\ version = <<>>
    /\ PlainBuild
NextSameName ==
    \/ \E p \in SameNameSources : Build_file(p)
    \/ Build_compile_objects
    \/ Build_find_nasm
    \/ Probe
    \/ JobserverFromEnv
    \/ JobserverLocal
    \/ ReleaseImplicit
    \/ Dispatch
    \/ \E i \in 1..MaxFiles : Worker(i)
    \/ Join
    \/ ReacquireImplicit
    \/ Collect
SpecSameName == InitSameName /\ [][NextSameName]_vars

\* The same under the fairness the claims of progress assume: every thread of
\* the process is scheduled, every assembler that was started exits, and a
\* thread waiting for a token gets one when tokens keep coming back.
Fairness ==
    /\ WF_vars(JobserverFromEnv \/ JobserverLocal)
    /\ WF_vars(ReleaseImplicit)
    /\ SF_vars(Dispatch)
    /\ \A i \in 1..MaxFiles : WF_vars(Worker(i))
    /\ WF_vars(Join)
    /\ SF_vars(ReacquireImplicit)
    /\ WF_vars(Collect)
FairSpec == Spec /\ Fairness

----------------------------------------------------------------------------
\* What the claims speak of.

RECURSIVE LexLess(_, _)
\* a comes before b in the lexicographic order of tuples of numbers
LexLess(a, b) ==
    /\ a # <<>> /\ b # <<>>
    /\ (a[1] < b[1] \/ (a[1] = b[1] /\ LexLess(Tail(a), Tail(b))))

AllDone == DOMAIN unit = 1..Len(files) /\ \A i \in DOMAIN unit : unit[i].st = "done"
Failed == {i \in DOMAIN unit : unit[i].res.tag = "Err"}
NotOk == {i \in DOMAIN unit : unit[i].res.tag \in {"Err", "Panic"}}
InputOrderObjects == [i \in 1..Len(files) |-> ObjectOf(files[i])]

\* compile_objects_inner was called and control has left it
InnerOver == found.some /\ pc \in {"archive", "returned", "panicked"}
\* what it returned, seen from compile_objects or from compile
InnerResult == IF op = "compile" /\ (pc = "archive" \/ ar_calls # <<>>) THEN RetOk(objects) ELSE ret
\* find_nasm returned an error
FindErred == ~found.some /\ pc = "returned"

----------------------------------------------------------------------------
\* C1: in the parallel compile_objects_inner the number of units whose
\* assembler process is in flight never exceeds the budget K of the jobserver.
C1_InFlightWithinBudget == parallel => Cardinality(InFlight) <= job_limit

\* the budget of two is used up by two assemblers while a third unit waits
C1_Witness ==
    /\ parallel /\ job_limit >= 2
    /\ Cardinality(InFlight) = job_limit
    /\ \E i \in DOMAIN unit : unit[i].st = "idle"

\* C2: under fairness the parallel compile_objects_inner, once it has its
\* jobserver, always comes to its end, for every budget and every file list:
\* every unit was dispatched and has finished, the implicit token is held
\* again, and control has left the call (it returned, or resumed the panic of a
\* unit).
C2_NoDeadlock ==
    (parallel /\ pc = "release") ~> (InnerOver /\ AllDone /\ Len(handles) = Len(files) /\ held = 1)

\* a call with a budget of one and several files has returned
C2_Witness ==
    /\ parallel /\ job_limit = 1 /\ Len(files) >= 2
    /\ pc = "returned" /\ AllDone /\ held = 1

\* C3: when every unit succeeds, the parallel compile_objects_inner returns
\* one object path per file, the i-th being the object of the i-th file.
C3_ObjectsInInputOrder ==
    (parallel /\ InnerOver /\ AllDone /\ NotOk = {}) => InnerResult = RetOk(InputOrderObjects)

\* two different files, the second of which had its result first
C3_Witness ==
    /\ parallel /\ InnerOver /\ AllDone /\ NotOk = {}
    /\ Len(files) >= 2 /\ files[1] # files[2]
    /\ overtook
    /\ InnerResult.tag = "Ok"

\* C4: the process holds its implicit token whenever it is outside
\* compile_objects_inner; inside, the token is given up before any unit is
\* dispatched and is held again from the reacquire on, whatever the call
\* then returns.
C4_ImplicitToken ==
    /\ pc \notin {"release", "dispatch", "collect"} => held = 1
    /\ pc = "dispatch" => held = 0
    /\ (parallel /\ \E i \in DOMAIN unit : unit[i].st \in {"ready", "running", "exited"}) => held = 0
    /\ pc = "collect" => held = 1

\* the parallel call has returned an error of a unit and the token is held
C4_Witness ==
    /\ parallel /\ InnerOver /\ pc = "returned" /\ ret.tag = "Err"
    /\ handles # <<>>
    /\ held = 1

\* C5 as claimed: once the parallel call is over with a unit whose process
\* failed, it has returned the error of the failed unit of smallest index, and
\* every unit has run to its end.
C5_FirstProcessErrorReturned ==
    (parallel /\ InnerOver /\ Failed # {}) =>
        /\ pc # "panicked"
        /\ InnerResult = RetErr(unit[Min(Failed)].res.err)
        /\ AllDone

\* C5 amended: once the parallel call is over with a unit that did not
\* succeed, every unit has run to its end and the outcome is that of the unit
\* of smallest index that did not succeed: its error is returned if its
\* process failed, its panic is resumed if it panicked.
C5_FirstFailureDecides ==
    (parallel /\ InnerOver /\ NotOk # {}) =>
        /\ AllDone
        /\ LET f == Min(NotOk)
           IN IF unit[f].res.tag = "Panic" THEN pc = "panicked"
              ELSE pc # "panicked" /\ InnerResult = RetErr(unit[f].res.err)

\* two units failed in different ways, the second one first, and the error
\* of the first one is returned
C5_Witness ==
    /\ parallel /\ InnerOver /\ Len(files) = 2
    /\ Failed = {1, 2}
    /\ unit[1].res.err # unit[2].res.err
    /\ overtook
    /\ ret = RetErr(unit[1].res.err)

\* C6: without the feature "parallel" at most one assembler runs at a time,
\* a unit is started only when every unit before it has succeeded, and when
\* the process of a unit fails the call has returned that unit's error and no
\* later unit has been or will be started.
C6_SequentialShortCircuit ==
    ~parallel =>
        /\ Cardinality(InFlight) <= 1
        /\ \A i \in DOMAIN unit : unit[i].st # "idle" =>
               \A j \in 1..(i - 1) : unit[j].st = "done" /\ unit[j].res.tag = "Ok"
        /\ \A i \in Failed :
               /\ pc = "returned" /\ ret = RetErr(unit[i].res.err)
               /\ \A j \in DOMAIN unit : j > i => unit[j].st = "idle"

\* the second of three units failed after the first succeeded
C6_Witness ==
    /\ ~parallel /\ Len(files) = 3
    /\ unit # <<>> /\ unit[1].res.tag = "Ok" /\ unit[2].res = ResErr(NonzeroExit) /\ unit[3].st = "idle"
    /\ pc = "returned"

\* C7 as claimed: find_nasm probes the candidates in order; while it probes,
\* no candidate probed so far was acceptable; and when it is over it has
\* returned the first acceptable candidate, having probed none after it, or,
\* when no candidate is acceptable, the error of the first candidate, having
\* probed them all.
Acceptable(c) ==
    /\ toolOut[c].ran
    /\ LET p == parse_nasm_version(toolOut[c].out)
       IN p.tag = "Ok" /\ ~LexLess(p.ver, min_version)
C7_FirstAcceptableOrFirstError ==
    pc \notin {"new", "find_nasm"} =>
        LET cands == Candidates(nasm, PATH)
            good == {i \in 1..Len(cands) : Acceptable(cands[i])}
        IN /\ probed = SubSeq(cands, 1, Len(probed))
           /\ pc = "probe" => \A i \in 1..Len(probed) : i \notin good
           /\ pc # "probe" =>
                IF good # {}
                THEN pc = "inner" /\ found = Some(cands[Min(good)]) /\ Len(probed) = Min(good)
                ELSE /\ pc = "returned" /\ Len(probed) = Len(cands)
                     /\ ret = RetErr(is_nasm_found_and_new_enough(min_version, cands[1], toolOut[cands[1]]).err)

\* C8 as claimed: the archiver runs at most once, only in compile, only when
\* every unit has its result and succeeded, and over the objects in input
\* order; when find_nasm or a unit's process has failed and the call is over,
\* compile has returned that error and the archiver has not run; and compile
\* has returned Ok only after a run of the archiver that exited with success.
ArchiverRunsLast ==
    /\ Len(ar_calls) <= 1
    /\ ar_calls # <<>> =>
         /\ op = "compile"
         /\ AllDone /\ NotOk = {}
         /\ ar_calls[1].objs = InputOrderObjects
    /\ (op = "compile" /\ pc = "returned" /\ ret.tag = "Ok") =>
         Len(ar_calls) = 1 /\ ar_calls[1].spawned /\ ar_calls[1].status = 0
    /\ (FindErred \/ NotOk # {}) => ar_calls = <<>>
    /\ FindErred => ret = RetErr(first_error.val)
C8_ArchiveAfterAllOrError ==
    /\ ArchiverRunsLast
    /\ (pc \in {"returned", "panicked"} /\ Failed # {}) =>
         pc = "returned" /\ ret = RetErr(unit[Min(Failed)].res.err)

\* C8 amended: as claimed, but a unit's failure is returned only when no unit
\* before it panicked: when the call is over with a unit that did not
\* succeed, compile has returned the error of the first such unit if its
\* process failed and has resumed its panic if it panicked, in both cases
\* with no run of the archiver.
C8_ArchiveAfterAllOrFirstFailure ==
    /\ ArchiverRunsLast
    /\ (pc \in {"returned", "panicked"} /\ NotOk # {}) =>
         LET f == Min(NotOk)
         IN IF unit[f].res.tag = "Panic" THEN pc = "panicked"
            ELSE pc = "returned" /\ ret = RetErr(unit[f].res.err)

\* compile has returned Ok after archiving the objects of two files
C8_Witness ==
    /\ op = "compile" /\ pc = "returned" /\ ret.tag = "Ok"
    /\ Len(files) = 2 /\ files[1] # files[2]
    /\ Len(ar_calls) = 1 /\ ar_calls[1].objs = InputOrderObjects

\* C9: a Build starts with the minimum (1, 0, 0), and
\* is_nasm_found_and_new_enough accepts a candidate that runs and prints a
\* version exactly when that version is not below the configured minimum in
\* the lexicographic order of (major, minor, micro).
VersionChecked ==
    /\ probed # <<>>
    /\ toolOut[probed[Len(probed)]].ran
    /\ parse_nasm_version(toolOut[probed[Len(probed)]].out).tag = "Ok"
ParsedVersion == parse_nasm_version(toolOut[probed[Len(probed)]].out).ver
C9_AcceptsIffNotBelowMinimum ==
    /\ min_version = <<1, 0, 0>>
    /\ [](VersionChecked => (verdict.tag = "Ok" <=> ~LexLess(ParsedVersion, min_version)))

\* a version with a larger major and a smaller minor than the minimum is accepted
C9_Witness ==
    /\ VersionChecked
    /\ ParsedVersion[1] > min_version[1] /\ ParsedVersion[2] < min_version[2]
    /\ verdict.tag = "Ok"

\* C10 as claimed: parse_nasm_version returns an Err for every output without
\* a numeric major component: the third field is missing, or what is left of
\* it before `rc` does not start with a component that is a number.
NoNumericMajor(v) ==
    LET fields == Split(v, " ")
    IN \/ Len(fields) < 3
       \/ LET third == fields[3]
              kept == IF FindRc(third) # 0 THEN SubSeq(third, 1, FindRc(third) - 1) ELSE third
          IN ~ParseUsize(Split(kept, ".")[1]).ok
C10_MalformedIsErr ==
    (pc = "parsed" /\ NoNumericMajor(version)) => verdict.tag = "Err"

\* C11: for an output whose third field has a numeric major component,
\* parse_nasm_version returns the numbers of the leading numeric components of
\* what precedes the first `rc` in the third field, as (major, minor, micro)
\* with 0 for a missing minor or micro; so 2.14.02 gives (2,14,2), 2.14 gives
\* (2,14,0) and 2.14rc2 gives (2,14,0), with or without text after it.
NoRc(s) == \A i \in 1..(Len(s) - 1) : ~(s[i] = "r" /\ s[i + 1] = "c")
BeforeRc(s) ==
    LET n == CHOOSE k \in 0..Len(s) :
                 /\ NoRc(SubSeq(s, 1, k))
                 /\ \A m \in (k + 1)..Len(s) : ~NoRc(SubSeq(s, 1, m))
    IN IF n = Len(s) THEN s ELSE SubSeq(s, 1, n - 1)
Numeric(c) == c # <<>> /\ \A i \in 1..Len(c) : c[i] \in {"0", "1", "2", "3", "4", "5", "6", "7", "8", "9"}
RECURSIVE ValueFrom(_, _)
ValueFrom(c, acc) ==
    IF c = <<>> THEN acc
    ELSE ValueFrom(Tail(c), 10 * acc + (CHOOSE d \in 0..9 : Digits[d + 1] = Head(c)))
VersionComps(v) == Split(BeforeRc(Split(v, " ")[3]), ".")
Leading(cs) == CHOOSE n \in 0..Len(cs) :
                   /\ \A i \in 1..n : Numeric(cs[i])
                   /\ n < Len(cs) => ~Numeric(cs[n + 1])
HasNumericMajor(v) == Len(Split(v, " ")) >= 3 /\ Leading(VersionComps(v)) >= 1
ExpectedVersion(v) ==
    LET cs == VersionComps(v)
        n == Leading(cs)
    IN <<ValueFrom(cs[1], 0),
         IF n >= 2 THEN ValueFrom(cs[2], 0) ELSE 0,
         IF n >= 3 THEN ValueFrom(cs[3], 0) ELSE 0>>
C11_LeadingNumericComponents ==
    pc = "parsed" =>
        /\ HasNumericMajor(version) => verdict = VerOk(ExpectedVersion(version))
        /\ \A e \in {<<>>, Compiled} :
             /\ version = Banner \o <<"2", ".", "1", "4", ".", "0", "2">> \o e => verdict = VerOk(<<2, 14, 2>>)
             /\ version = Banner \o <<"2", ".", "1", "4">> \o e => verdict = VerOk(<<2, 14, 0>>)
             /\ version = Banner \o <<"2", ".", "1", "4", "r", "c", "2">> \o e => verdict = VerOk(<<2, 14, 0>>)

\* a release candidate followed by text, and a version whose second
\* component is not a number, have been parsed
C11_Witness ==
    /\ pc = "parsed"
    /\ \/ version = Banner \o <<"2", ".", "1", "4", "r", "c", "2">> \o Compiled /\ verdict = VerOk(<<2, 14, 0>>)
       \/ version = Banner \o <<"2", ".", "x", ".", "2">> /\ verdict = VerOk(<<2, 0, 0>>)

\* C12: parse_triple gives a result for every triple: ("", -g) when the
\* triple has fewer than three parts or its ARCH is not an x86 one;
\* (-felfx32, -gdwarf) for x86_64 with the fourth part gnux32, whatever the
\* OS; and otherwise the format of the OS family (macho for darwin and ios,
\* win for windows and uefi, elf for the rest) at the width of the ARCH (64
\* for x86_64, 32 for x86, i386, i586, i686), with -gdwarf for elf and -g for
\* the others.
Family(os) ==
    IF os = <<"d", "a", "r", "w", "i", "n">> \/ os = <<"i", "o", "s">> THEN <<"m", "a", "c", "h", "o">>
    ELSE IF os = <<"w", "i", "n", "d", "o", "w", "s">> \/ os = <<"u", "e", "f", "i">> THEN <<"w", "i", "n">>
    ELSE <<"e", "l", "f">>
ExpectedFlags(trip) ==
    LET parts == Split(trip, "-")
        arch32 == parts[1] = <<"x", "8", "6">> \/ parts[1] = <<"i", "3", "8", "6">> \/ parts[1] = <<"i", "5", "8", "6">> \/ parts[1] = <<"i", "6", "8", "6">>
        arch64 == parts[1] = <<"x", "8", "6", "_", "6", "4">>
    IN IF Len(parts) < 3 \/ ~(arch32 \/ arch64) THEN << <<>>, <<"-", "g">> >>
       ELSE IF arch64 /\ Len(parts) >= 4 /\ parts[4] = <<"g", "n", "u", "x", "3", "2">> THEN << <<"-", "f", "e", "l", "f", "x", "3", "2">>, <<"-", "g", "d", "w", "a", "r", "f">> >>
       ELSE << <<"-", "f">> \o Family(parts[3]) \o (IF arch64 THEN <<"6", "4">> ELSE <<"3", "2">>),
               IF Family(parts[3]) = <<"e", "l", "f">> THEN <<"-", "g", "d", "w", "a", "r", "f">> ELSE <<"-", "g">> >>
C12_TripleResolved ==
    pc = "resolved" =>
        /\ resolved = ExpectedFlags(triple)
        /\ triple = <<"x", "8", "6", "_", "6", "4", "-", "u", "n", "k", "n", "o", "w", "n", "-", "l", "i", "n", "u", "x", "-", "g", "n", "u", "x", "3", "2">> => resolved = << <<"-", "f", "e", "l", "f", "x", "3", "2">>, <<"-", "g", "d", "w", "a", "r", "f">> >>
        /\ triple = <<"x", "8", "6", "_", "6", "4", "-", "u", "n", "k", "n", "o", "w", "n", "-", "l", "i", "n", "u", "x">> => resolved = << <<"-", "f", "e", "l", "f", "6", "4">>, <<"-", "g", "d", "w", "a", "r", "f">> >>
        /\ triple = <<"i", "6", "8", "6", "-", "p", "c", "-", "w", "i", "n", "d", "o", "w", "s", "-", "m", "s", "v", "c">> => resolved = << <<"-", "f", "w", "i", "n", "3", "2">>, <<"-", "g">> >>

\* a 64-bit triple for an Apple system has been resolved to macho64
C12_Witness ==
    /\ pc = "resolved"
    /\ triple = <<"x", "8", "6", "_", "6", "4", "-", "a", "p", "p", "l", "e", "-", "d", "a", "r", "w", "i", "n">>
    /\ resolved = << <<"-", "f", "m", "a", "c", "h", "o", "6", "4">>, <<"-", "g">> >>

\* C13: get_args returns the format flag of the target, then the debug flag
\* of the target exactly when debug is enabled, then one entry per include,
\* define and flag call in call order: -I<d> with a slash appended when d
\* does not end with one, -D<n>=<v> or -D<n>, and the flag as given.
Contribution(c) ==
    IF c.call = "include"
    THEN <<"-", "I">> \o c.a \o (IF c.a # <<>> /\ c.a[Len(c.a)] = "/" THEN <<>> ELSE <<"/">>)
    ELSE IF c.call = "define"
    THEN <<"-", "D">> \o c.a \o (IF c.b.some THEN <<"=">> \o c.b.val ELSE <<>>)
    ELSE c.a
C13_ArgsInCallOrder ==
    pc = "args" =>
        /\ Len(args) = 1 + (IF debug THEN 1 ELSE 0) + Len(calls)
        /\ args[1] = ExpectedFlags(get_target)[1]
        /\ debug => args[2] = ExpectedFlags(get_target)[2]
        /\ \A i \in 1..Len(calls) : args[Len(args) - Len(calls) + i] = Contribution(calls[i])

\* the calls of the crate's test_build, with debug disabled
C13_Witness ==
    /\ pc = "args" /\ ~debug
    /\ [i \in 1..Len(calls) |-> calls[i].call] = <<"include", "include", "define", "define", "flag">>
    /\ args = << <<"-", "f", "e", "l", "f", "3", "2">>, <<"-", "I", ".", "/">>, <<"-", "I", "d", "i", "r", "/">>, <<"-", "D", "f", "o", "o", "=", "1">>, <<"-", "D", "b", "a", "r">>, <<"-", "t", "e", "s", "t">> >>

\* C14 as claimed: in either style the archiver that is run is the one
\* given to the Build if one was given, else the value of AR if AR is set,
\* else `lib` in the MSVC style and `ar` in the other.
C14_ArchiverPrecedence ==
    \A i \in 1..Len(ar_calls) :
        ar_calls[i].ar = IF archiver.some THEN archiver.val
                         ELSE IF AR.some THEN AR.val
                         ELSE IF ar_calls[i].msvc THEN <<"l", "i", "b">> ELSE <<"a", "r">>

\* C15: for each of the names foo, libfoo.a and foo.lib, compile derives the
\* file name libfoo.a when the last part of the target is not msvc and
\* foo.lib when it is, and that file is the one handed to the archiver.
MsvcSuffix(tgt) ==
    LET parts == Split(tgt, "-")
    IN Len(parts) >= 2 /\ parts[Len(parts)] = <<"m", "s", "v", "c">>
C15_SameFileForWrappedNames ==
    (op = "compile" /\ lib_name \in {<<"f", "o", "o">>, <<"l", "i", "b", "f", "o", "o", ".", "a">>, <<"f", "o", "o", ".", "l", "i", "b">>}) =>
        /\ output = IF MsvcSuffix(get_target) THEN <<"f", "o", "o", ".", "l", "i", "b">> ELSE <<"l", "i", "b", "f", "o", "o", ".", "a">>
        /\ \A i \in 1..Len(ar_calls) : ar_calls[i].lib = output

\* the archiver has been run for libfoo.a on an MSVC target, and for foo.lib
\* on another
C15_Witness ==
    /\ ar_calls # <<>>
    /\ \/ lib_name = <<"l", "i", "b", "f", "o", "o", ".", "a">> /\ TARGET = MsvcTarget /\ ar_calls[1].lib = <<"f", "o", "o", ".", "l", "i", "b">>
       \/ lib_name = <<"f", "o", "o", ".", "l", "i", "b">> /\ TARGET = LinuxTarget /\ ar_calls[1].lib = <<"l", "i", "b", "f", "o", "o", ".", "a">>

\* C16: in the parallel compile_objects_inner a unit leaves the waiting
\* state only by taking a token from the pool, and its process is started
\* only after that; once its process has exited (or failed to start), the
\* next step of the unit gives the token back to the pool, and that step is
\* not a join; a unit is joined only when its token is back.
C16_TokenHeldWhileRunning ==
    [][parallel =>
        /\ \A i \in DOMAIN unit :
            /\ (unit[i].st = "idle" /\ unit'[i].st # "idle") =>
                   (unit'[i].st = "ready" /\ pool' = pool - 1)
            /\ (unit[i].st # "running" /\ unit'[i].st = "running") => unit[i].st = "ready"
            /\ (unit[i].st = "exited" /\ unit'[i].st # "exited") =>
                   (unit'[i].st = "done" /\ pool' = pool + 1 /\ thread_results' = thread_results)
        /\ thread_results' # thread_results =>
               \A k \in 1..Len(thread_results') : unit[handles[k]].st = "done"
    ]_vars

\* with a budget of two and three files, the second unit has given its token
\* back and the third has been dispatched while the first is still running
\* and nothing has been joined
C16_Witness ==
    /\ parallel /\ job_limit = 2 /\ Len(files) = 3 /\ pc = "dispatch"
    /\ thread_results = <<>>
    /\ unit[1].st = "running" /\ unit[2].st = "done" /\ unit[3].st \in {"ready", "running"}

\* C17 as claimed: in the parallel compile_objects_inner, once the process
\* of some unit has failed, a unit that has not been dispatched stays
\* undispatched.
C17_NothingStartedAfterFailure ==
    [][(parallel /\ Failed # {}) =>
          \A i \in DOMAIN unit : unit[i].st = "idle" => unit'[i].st = "idle"]_vars

\* C17 amended: the parallel compile_objects_inner does not fail fast: when
\* the process of a unit has failed while other units are not yet dispatched,
\* these units are still dispatched and run, the units already started
\* finish, and the call is over only when every unit has its result.
C17_EveryUnitStillRuns ==
    (parallel /\ pc = "dispatch" /\ Failed # {} /\ \E i \in DOMAIN unit : unit[i].st = "idle")
        ~> (InnerOver /\ AllDone /\ \A i \in DOMAIN unit : unit[i].res.tag \in {"Ok", "Err", "Panic"})

\* with a budget of one, the second unit has run and succeeded after the
\* first one failed, and the error of the first is returned
C17_Witness ==
    /\ parallel /\ InnerOver /\ job_limit = 1 /\ Len(files) >= 2
    /\ unit[1].res.tag = "Err" /\ unit[2].res.tag = "Ok"
    /\ pc = "returned" /\ ret = RetErr(unit[1].res.err)

\* C18 as claimed: no two units whose assemblers are in flight at the same
\* time have the same destination object path, also when the file list has
\* two different source paths with the same file name.
C18_DistinctDestinationsInFlight ==
    \A i \in InFlight : \A j \in InFlight :
        (i # j /\ files[i] # files[j]) => ObjectOf(files[i]) # ObjectOf(files[j])

\* C19: over the compile_objects calls of one process the jobserver is
\* created once, by the first call, with one of its K tokens taken out for
\* the process; later calls find it and change nothing on entry; and at every
\* instant the tokens in the pool, the tokens held by units and the implicit
\* token held by the process add up to K, none of them negative.
TokensOfUnits == Cardinality({i \in DOMAIN unit : unit[i].st \in {"ready", "running", "exited"}})
C19_CreatedOnceTokensConserved ==
    /\ [](JOBSERVER = "set" =>
            /\ pool + TokensOfUnits + held = job_limit
            /\ pool >= 0 /\ held \in {0, 1})
    /\ [][/\ (JOBSERVER = "unset" /\ JOBSERVER' = "set") =>
                (ncalls = 0 /\ held' = 1 /\ pool' = job_limit' - 1)
          /\ JOBSERVER = "set" =>
                /\ JOBSERVER' = "set" /\ job_limit' = job_limit
                /\ pc = "inner" => (pool' = pool /\ held' = held)
         ]_vars

\* a second call runs two assemblers on the jobserver the first call made
C19_Witness ==
    /\ ncalls = 1 /\ pc = "dispatch"
    /\ job_limit = 2 /\ Cardinality(InFlight) = 2
    /\ pool = 0 /\ held = 0

\* C20 as claimed: with two runs of compile_objects_inner on two threads of
\* one process, the process has never released more implicit tokens than it
\* holds, and the assemblers in flight of both runs together never exceed K.
C20_BudgetHoldsAcrossTwoRuns ==
    JOBSERVER = "set" =>
        /\ held >= 0
        /\ Cardinality(InFlight) + Cardinality(InFlight2) <= job_limit

====
